---------------------------- MODULE Spec2Model ----------------------------
(***************************************************************************)
(* A model of the llm-mission-planner repository:                          *)
(*   - MissionPlanner._extract_json_block and the JSON syntax it relies on *)
(*     (mission_planner/planner.py),                                       *)
(*   - the MissionPlan / Action schema (mission_planner/schemas.py),       *)
(*   - OllamaLLM.generate (mission_planner/LLM.py),                        *)
(*   - MissionPlanner.generate_mission_plan, the repair-and-retry loop.    *)
(*                                                                         *)
(* A text is a sequence of lexical units.  A unit is either one delimiter  *)
(* character  { } [ ] " : ,  or blank, or a maximal run of letters or of   *)
(* digits ("mission_name", "x", "1").  No scanner of the program looks     *)
(* inside a run of letters or digits, so a run is kept as one unit.        *)
(***************************************************************************)
EXTENDS Integers, Sequences, FiniteSets, TLC

VARIABLES
    pc,            \* position of generate_mission_plan: "idle", "loop", "returned", "raised"
    instruction,   \* the instruction argument
    constraints,   \* the constraints argument
    max_attempts,  \* the max_attempts argument
    attempt,       \* the loop variable of "for attempt in range(1, max_attempts + 1)"
    messages,      \* the message list built by _build_prompt and appended to
    text,          \* llm_response.content of the latest attempt
    json_text,     \* the latest result of _extract_json_block
    plan,          \* the MissionPlan handed to the caller
    error,         \* the exception that left generate_mission_plan
    backend,       \* history: what the backend did on each generator call
    sent,          \* history: the message list each generator call received
    replies,       \* history: the reply content of each generator call that returned
    xtext,         \* extractor run: the text given to _extract_json_block
    xresult,       \* extractor run: what it returned
    rplan,         \* round trip: the MissionPlan that is serialised
    rback,         \* round trip: what extraction and validation of its JSON text gave
    vcand,         \* validator run: the candidate document, as the parts it is written from
    vresult,       \* validator run: what MissionPlan.model_validate_json gave
    sim,           \* simulation: "off", "running" (in the main loop), "crashed" (an exception left main)
    llm_actions,   \* simulation: llm_plan.actions
    current_action_index, \* simulation: the global action cursor
    robot,         \* simulation: the fields of the Robot
    stdout,        \* simulation: the lines Robot.step printed
    dt,            \* simulation: dt of the latest tick, in milliseconds
    prev,          \* history: the robot and the cursor before the latest tick, the cursor as step left it
    effects,       \* history: the cursor values of the actions step has dispatched, in order
    waiting        \* history: the latest wait armed and the time of the ticks since, its own included

vars == <<pc, instruction, constraints, max_attempts, attempt, messages, text, json_text, plan, error,
          backend, sent, replies, xtext, xresult, rplan, rback, vcand, vresult,
          sim, llm_actions, current_action_index, robot, stdout, dt, prev, effects, waiting>>

plannerVars == <<pc, instruction, constraints, max_attempts, attempt, messages, text, json_text, plan,
                 error, backend, sent, replies>>

extractVars == <<xtext, xresult>>

roundTripVars == <<rplan, rback>>

validateVars == <<vcand, vresult>>

robotVars == <<sim, llm_actions, current_action_index, robot, stdout, dt, prev, effects, waiting>>

(***************************************************************************)
(* Bounds of the model.                                                    *)
(***************************************************************************)
MaxAttempts == 3    \* largest max_attempts a caller passes
MaxProseBefore == 3 \* longest prose put before a JSON block
MaxProseAfter == 1  \* longest prose put after a JSON block
MaxPlanActions == 2 \* longest action list of a serialised or validated document

-----------------------------------------------------------------------------
(***************************************************************************)
(* Texts.                                                                  *)
(***************************************************************************)
LBRACE == "{"
RBRACE == "}"
LBRACK == "["
RBRACK == "]"
QUOTE == "\""
COLON == ":"
COMMA == ","
BLANK == " "

\* the literals json.loads knows besides strings, numbers, objects and arrays
Literals == {"true", "false", "null", "NaN", "Infinity"}

\* runs of digits
Numbers == {"1", "2", "25"}

IsWhitespace(ch) == ch = BLANK

RECURSIVE SkipWs(_, _)
\* json.decoder WHITESPACE.match(s, idx).end()
SkipWs(s, i) ==
    IF i <= Len(s) /\ IsWhitespace(s[i]) THEN SkipWs(s, i + 1) ELSE i


-----------------------------------------------------------------------------
(***************************************************************************)
(* json.loads, as far as the program uses it: whether a text is one JSON   *)
(* document, and which value it denotes.  A parse result is a record       *)
(* [ok, val, end]: end is the position after the parsed value.  A value is *)
(* [t, v] with t one of "str", "num", "lit", "arr", "obj"; v is the        *)
(* sequence of units of a string, number or literal, the sequence of       *)
(* elements of an array, the sequence of <<key, value>> pairs of an object.*)
(***************************************************************************)
Fail == [ok |-> FALSE, val |-> <<>>, end |-> 0]

Ok(v, e) == [ok |-> TRUE, val |-> v, end |-> e]

RECURSIVE FindQuote(_, _)
\* position of the first '"' at or after i, 0 when there is none
FindQuote(s, i) ==
    IF i > Len(s) THEN 0
    ELSE IF s[i] = QUOTE THEN i
    ELSE FindQuote(s, i + 1)

\* json.decoder.py_scanstring: s[i] is the opening quote
ParseString(s, i) ==
    LET j == FindQuote(s, i + 1)
    IN  IF j = 0 THEN Fail
        ELSE Ok([t |-> "str", v |-> SubSeq(s, i + 1, j - 1)], j + 1)

RECURSIVE scan_once(_, _)
RECURSIVE ObjectMembers(_, _, _)
RECURSIVE ArrayElements(_, _, _)

\* json.decoder.JSONObject from the first key on: s[i] is the key's opening quote
ObjectMembers(s, i, acc) ==
    LET key == ParseString(s, i)
        k   == SkipWs(s, key.end)
        val == scan_once(s, SkipWs(s, k + 1))
        m   == SkipWs(s, val.end)
        all == Append(acc, <<key.val.v, val.val>>)
        n   == SkipWs(s, m + 1)
    IN  IF ~key.ok THEN Fail
        ELSE IF k > Len(s) \/ s[k] # COLON THEN Fail
        ELSE IF ~val.ok THEN Fail
        ELSE IF m > Len(s) THEN Fail
        ELSE IF s[m] = RBRACE THEN Ok([t |-> "obj", v |-> all], m + 1)
        ELSE IF s[m] # COMMA THEN Fail
        ELSE IF n > Len(s) \/ s[n] # QUOTE THEN Fail
        ELSE ObjectMembers(s, n, all)

\* json.decoder.JSONObject: i is the position after '{'
ParseObject(s, i) ==
    LET j == SkipWs(s, i)
    IN  IF j > Len(s) THEN Fail
        ELSE IF s[j] = RBRACE THEN Ok([t |-> "obj", v |-> <<>>], j + 1)
        ELSE IF s[j] # QUOTE THEN Fail
        ELSE ObjectMembers(s, j, <<>>)

\* json.decoder.JSONArray from the first element on
ArrayElements(s, i, acc) ==
    LET val == scan_once(s, i)
        m   == SkipWs(s, val.end)
        all == Append(acc, val.val)
    IN  IF ~val.ok THEN Fail
        ELSE IF m > Len(s) THEN Fail
        ELSE IF s[m] = RBRACK THEN Ok([t |-> "arr", v |-> all], m + 1)
        ELSE IF s[m] # COMMA THEN Fail
        ELSE ArrayElements(s, SkipWs(s, m + 1), all)

\* json.decoder.JSONArray: i is the position after '['
ParseArray(s, i) ==
    LET j == SkipWs(s, i)
    IN  IF j > Len(s) THEN Fail
        ELSE IF s[j] = RBRACK THEN Ok([t |-> "arr", v |-> <<>>], j + 1)
        ELSE ArrayElements(s, j, <<>>)

\* json.scanner.py_make_scanner._scan_once
scan_once(s, i) ==
    IF i > Len(s) THEN Fail
    ELSE IF s[i] = QUOTE THEN ParseString(s, i)
    ELSE IF s[i] = LBRACE THEN ParseObject(s, i + 1)
    ELSE IF s[i] = LBRACK THEN ParseArray(s, i + 1)
    ELSE IF s[i] \in Literals THEN Ok([t |-> "lit", v |-> <<s[i]>>], i + 1)
    ELSE IF s[i] \in Numbers THEN Ok([t |-> "num", v |-> <<s[i]>>], i + 1)
    ELSE Fail

\* json.loads(s): the whole of s is one JSON value between optional blanks
json_loads(s) ==
    LET r == scan_once(s, SkipWs(s, 1))
    IN  IF r.ok /\ SkipWs(s, r.end) = Len(s) + 1 THEN r ELSE Fail

-----------------------------------------------------------------------------
(***************************************************************************)
(* MissionPlanner._extract_json_block                                      *)
(***************************************************************************)
\* Python's None where a text is expected; no text of the model equals it
None == <<"None">>

RECURSIVE FirstOpen(_, _)
\* re.search(r"[\{\[]", text): the position of the first '{' or '[', 0 if none
FirstOpen(s, i) ==
    IF i > Len(s) THEN 0
    ELSE IF s[i] \in {LBRACE, LBRACK} THEN i
    ELSE FirstOpen(s, i + 1)

RECURSIVE ScanBlock(_, _, _, _)
\* the loop "for i in range(start, len(text))" from position i with the given
\* depth; it passes over every unit that is neither open_char nor close_char
ScanBlock(s, start, i, depth) ==
    LET open_char  == s[start]
        close_char == IF open_char = LBRACE THEN RBRACE ELSE RBRACK
        marks      == {k \in i..Len(s) : s[k] \in {open_char, close_char}}
        j          == CHOOSE k \in marks : \A m \in marks : k <= m
        candidate  == SubSeq(s, start, j)
    IN  IF marks = {} THEN None
        ELSE IF s[j] = open_char THEN ScanBlock(s, start, j + 1, depth + 1)
        ELSE IF depth - 1 = 0
             THEN IF json_loads(candidate).ok THEN candidate
                  ELSE ScanBlock(s, start, j + 1, depth - 1)
        ELSE ScanBlock(s, start, j + 1, depth - 1)

_extract_json_block(s) ==
    LET start == FirstOpen(s, 1)
    IN  IF s = <<>> THEN None
        ELSE IF start = 0 THEN None
        ELSE ScanBlock(s, start, start, 0)

-----------------------------------------------------------------------------
(***************************************************************************)
(* schemas.py: MissionPlan.model_validate_json.  Pydantic reads the text   *)
(* as JSON and checks it against                                           *)
(*     Action      {action: str, parameters: Dict[str, str] = {}}          *)
(*     MissionPlan {mission_name: str, actions: List[Action] = []}         *)
(* Unknown keys are ignored; of a repeated key the last value counts.  A   *)
(* validation error is the sequence of its entries [loc, type].  A field   *)
(* of a plan holds the value it was built from, [t, v]; a dict is the      *)
(* sequence of its <<key, value>> pairs.                                   *)
(***************************************************************************)
NoPlan == [t |-> "None"]

RECURSIVE HasKey(_, _)
HasKey(pairs, key) ==
    IF pairs = <<>> THEN FALSE
    ELSE IF pairs[Len(pairs)][1] = key THEN TRUE
    ELSE HasKey(SubSeq(pairs, 1, Len(pairs) - 1), key)

RECURSIVE Lookup(_, _)
\* the value of key: the last pair that names it
Lookup(pairs, key) ==
    IF pairs[Len(pairs)][1] = key THEN pairs[Len(pairs)][2]
    ELSE Lookup(SubSeq(pairs, 1, Len(pairs) - 1), key)

RECURSIVE DictOf(_)
\* the dict a sequence of pairs builds: a repeated key keeps its first place
\* and takes its last value
DictOf(pairs) ==
    IF pairs = <<>> THEN <<>>
    ELSE LET init == SubSeq(pairs, 1, Len(pairs) - 1)
             last == pairs[Len(pairs)]
             d    == DictOf(init)
         IN  IF HasKey(d, last[1])
             THEN [i \in 1..Len(d) |-> IF d[i][1] = last[1] THEN last ELSE d[i]]
             ELSE Append(d, last)

Err(loc, type) == [loc |-> loc, type |-> type]

RECURSIVE ParameterErrors(_, _)
\* Dict[str, str]: every value of the dict must be a string
ParameterErrors(d, loc) ==
    IF d = <<>> THEN <<>>
    ELSE LET rest == ParameterErrors(Tail(d), loc)
         IN  IF d[1][2].t = "str" THEN rest
             ELSE <<Err(loc \o d[1][1], "string_type")>> \o rest

\* a validator with the vocabulary of SYSTEM_PROMPT built in: Action.action
\* declared as a Literal of the five names
ClosedVocabularyErrors(v, loc) ==
    IF v.t # "obj" THEN <<Err(loc, "model_type")>>
    ELSE
      (IF ~HasKey(v.v, <<"action">>) THEN <<Err(loc \o <<"action">>, "missing")>>
       ELSE IF Lookup(v.v, <<"action">>).t # "str"
               \/ Lookup(v.v, <<"action">>).v \notin
                     { <<"move_to">>, <<"take_photo">>, <<"wait">>, <<"pick_up">>, <<"drop_off">> }
            THEN <<Err(loc \o <<"action">>, "literal_error")>>
       ELSE <<>>)
      \o
      (IF ~HasKey(v.v, <<"parameters">>) THEN <<>>
       ELSE IF Lookup(v.v, <<"parameters">>).t # "obj"
            THEN <<Err(loc \o <<"parameters">>, "dict_type")>>
       ELSE ParameterErrors(DictOf(Lookup(v.v, <<"parameters">>).v),
                            loc \o <<"parameters">>))

\* class Action: the errors of one element of "actions", at location loc
ActionErrors(v, loc) ==
    IF v.t # "obj" THEN <<Err(loc, "model_type")>>
    ELSE
      (IF ~HasKey(v.v, <<"action">>) THEN <<Err(loc \o <<"action">>, "missing")>>
       ELSE IF Lookup(v.v, <<"action">>).t # "str"
            THEN <<Err(loc \o <<"action">>, "string_type")>>
       ELSE <<>>)
      \o
      (IF ~HasKey(v.v, <<"parameters">>) THEN <<>>
       ELSE IF Lookup(v.v, <<"parameters">>).t # "obj"
            THEN <<Err(loc \o <<"parameters">>, "dict_type")>>
       ELSE ParameterErrors(DictOf(Lookup(v.v, <<"parameters">>).v),
                            loc \o <<"parameters">>))

\* class Action: the Action an error-free element builds
ActionOf(v) ==
    [action |-> Lookup(v.v, <<"action">>),
     parameters |-> IF HasKey(v.v, <<"parameters">>)
                    THEN DictOf(Lookup(v.v, <<"parameters">>).v)
                    ELSE <<>>]

RECURSIVE ActionsErrors(_, _)
\* List[Action]: the errors of the elements from index i on (Python counts from 0)
ActionsErrors(elems, i) ==
    IF i > Len(elems) THEN <<>>
    ELSE ActionErrors(elems[i], <<"actions", ToString(i - 1)>>)
         \o ActionsErrors(elems, i + 1)

\* class MissionPlan: the errors of a JSON value
MissionPlanErrors(v) ==
    IF v.t # "obj" THEN <<Err(<<>>, "model_type")>>
    ELSE
      (IF ~HasKey(v.v, <<"mission_name">>) THEN <<Err(<<"mission_name">>, "missing")>>
       ELSE IF Lookup(v.v, <<"mission_name">>).t # "str"
            THEN <<Err(<<"mission_name">>, "string_type")>>
       ELSE <<>>)
      \o
      (IF ~HasKey(v.v, <<"actions">>) THEN <<>>
       ELSE IF Lookup(v.v, <<"actions">>).t # "arr"
            THEN <<Err(<<"actions">>, "list_type")>>
       ELSE ActionsErrors(Lookup(v.v, <<"actions">>).v, 1))

\* class MissionPlan: the plan an error-free JSON value builds
MissionPlanOf(v) ==
    [t |-> "MissionPlan",
     mission_name |-> Lookup(v.v, <<"mission_name">>),
     actions |-> IF HasKey(v.v, <<"actions">>)
                 THEN LET elems == Lookup(v.v, <<"actions">>).v
                      IN  [i \in 1..Len(elems) |-> ActionOf(elems[i])]
                 ELSE <<>>]

\* MissionPlan.model_validate_json(json_text): [ok, plan, errors]; with ok false
\* it raises pydantic's ValidationError carrying the errors
model_validate_json(s) ==
    LET r == json_loads(s)
        errors == IF r.ok THEN MissionPlanErrors(r.val)
                  ELSE <<Err(<<>>, "json_invalid")>>
    IN  IF errors = <<>>
        THEN [ok |-> TRUE, plan |-> MissionPlanOf(r.val), errors |-> <<>>]
        ELSE [ok |-> FALSE, plan |-> NoPlan, errors |-> errors]

RECURSIVE ErrorText(_)
\* str(e) of a ValidationError: each entry's location and type, in order
ErrorText(errors) ==
    IF errors = <<>> THEN <<>>
    ELSE errors[1].loc \o <<errors[1].type>> \o ErrorText(Tail(errors))

-----------------------------------------------------------------------------
(***************************************************************************)
(* LLM.py: OllamaLLM.generate.  What the backend does on one call is       *)
(* either a network error (requests.post raises) or a response body, a     *)
(* sequence of lines.  A line is blank, is not JSON, is a JSON object with *)
(* or without a "response" key, or is a JSON number.                       *)
(***************************************************************************)
NetworkError == [kind |-> "network_error", lines |-> <<>>]

Payload(lines) == [kind |-> "payload", lines |-> lines]

ChunkLine(t) == [kind |-> "object", has_response |-> TRUE, response |-> t]

ErrorLine == [kind |-> "object", has_response |-> FALSE, response |-> <<>>]

GarbageLine == [kind |-> "garbage", has_response |-> FALSE, response |-> <<>>]

BlankLine == [kind |-> "blank", has_response |-> FALSE, response |-> <<>>]

NumberLine == [kind |-> "number", has_response |-> FALSE, response |-> <<>>]

NoError == [type |-> "None"]

ConnectionError == [type |-> "ConnectionError"]

TypeError == [type |-> "TypeError"]

\* args: the texts the exception was built with
RuntimeError ==
    [type |-> "RuntimeError",
     args |-> << <<"Failed to generate a valid MissionPlan after multiple attempts.">> >>]

Raised(exc) == [raised |-> TRUE, exc |-> exc, content |-> <<>>]

LLMResponse(content) == [raised |-> FALSE, exc |-> NoError, content |-> content]

\* a generate that swallows the network error and goes on with an empty body
PostNeverRaises(outcome) == FALSE

\* requests.post(...) raises when the backend cannot be reached
PostRaises(outcome) == outcome.kind = "network_error"

RECURSIVE DrainLines(_, _)
\* the loop over response.text.splitlines(), with response_cat collected so far
DrainLines(lines, response_cat) ==
    IF lines = <<>> THEN LLMResponse(response_cat)
    ELSE LET line == lines[1]
         IN  IF line.kind = "blank" THEN DrainLines(Tail(lines), response_cat)
             ELSE IF line.kind = "garbage" THEN DrainLines(Tail(lines), response_cat)
             ELSE IF line.kind = "number" THEN Raised(TypeError)
             ELSE IF line.has_response
                  THEN DrainLines(Tail(lines), response_cat \o line.response)
             ELSE DrainLines(Tail(lines), response_cat)

\* OllamaLLM.generate(messages) when the backend does `outcome`
generate(msgs, outcome) ==
    IF PostRaises(outcome) THEN Raised(ConnectionError)
    ELSE DrainLines(outcome.lines, <<>>)

-----------------------------------------------------------------------------
(***************************************************************************)
(* planner.py: MissionPlanner._build_prompt and generate_mission_plan      *)
(***************************************************************************)
SYSTEM_PROMPT == "You are a mission planning assistant for a robotic rover. ..."

LLMMessage(role, content) == [role |-> role, content |-> content]

RECURSIVE LStrip(_)
LStrip(s) == IF s # <<>> /\ IsWhitespace(s[1]) THEN LStrip(Tail(s)) ELSE s

RECURSIVE RStrip(_)
RStrip(s) ==
    IF s # <<>> /\ IsWhitespace(s[Len(s)]) THEN RStrip(SubSeq(s, 1, Len(s) - 1)) ELSE s

\* str.strip()
Strip(s) == RStrip(LStrip(s))

_build_prompt(instr, constr) ==
    LET user_text ==
            <<"Instruction:\n">> \o Strip(instr)
            \o (IF constr # None /\ constr # <<>>
                THEN <<"\n\nConstraints:\n">> \o Strip(constr)
                ELSE <<>>)
    IN  << LLMMessage("system", <<SYSTEM_PROMPT>>),
           LLMMessage("user", user_text) >>

\* the corrective message after a reply without a JSON block
NoJsonCorrection ==
    LLMMessage("system",
        <<"Previous response did not contain parseable JSON. ",
          "Please reply with a single JSON object (or array) only, matching the schema.">>)

\* a corrective message that leaves the validation error out
GenericCorrection(e) ==
    LLMMessage("system",
        <<"The JSON you returned could not be validated against the mission schema. ",
          "Please return corrected JSON only.">>)

\* the corrective message after a ValidationError e
ValidationCorrection(e) ==
    LLMMessage("system",
        <<"The JSON you returned could not be validated against the mission schema. ",
          "Validation error: ">> \o ErrorText(e) \o <<". Please return corrected JSON only.">>)

\* a correction that takes the place of the earlier corrections
ReplaceCorrections(msgs, m) == <<msgs[1], msgs[2], m>>

\* messages.append(m)
AppendMessage(msgs, m) == Append(msgs, m)

\* a loop that runs once more: range(1, max_attempts + 2)
LastAttemptOffByOne(n) == n + 1

\* the last value of "for attempt in range(1, max_attempts + 1)"
LastAttempt(n) == n

\* a loop body that goes on to the next attempt after a valid plan
NeverReturnsPlan(v) == FALSE

\* a loop body that returns whatever the validator left
AlwaysReturnsPlan(v) == TRUE

\* "return plan" is reached when model_validate_json raised nothing
ReturnsPlan(v) == v.ok

\* One pass of the loop body after the generator replied with `content`:
\* [returned, json_text, plan, messages].  Pydantic reports a text that is not
\* JSON as a ValidationError as well, so the handler of json.JSONDecodeError is
\* never entered.
LoopBody(msgs, content) ==
    LET jt == _extract_json_block(content)
        v  == model_validate_json(jt)
    IN  IF jt = None
        THEN [returned |-> FALSE, json_text |-> jt, plan |-> NoPlan,
              messages |-> AppendMessage(msgs, NoJsonCorrection)]
        ELSE IF ReturnsPlan(v)
        THEN [returned |-> TRUE, json_text |-> jt, plan |-> v.plan,
              messages |-> msgs]
        ELSE [returned |-> FALSE, json_text |-> jt, plan |-> NoPlan,
              messages |-> AppendMessage(msgs, ValidationCorrection(v.errors))]

-----------------------------------------------------------------------------
(***************************************************************************)
(* The texts given to _extract_json_block: a block between two stretches   *)
(* of prose.  Prose is any sequence of letters, blanks, braces and         *)
(* brackets.                                                               *)
(***************************************************************************)
SeqsUpTo(S, n) == UNION {[1..k -> S] : k \in 0..n}

ProseUnits == {"x", LBRACE, RBRACE, LBRACK, RBRACK}

Str(units) == <<QUOTE>> \o units \o <<QUOTE>>

\* {"x": value}
ObjX(value) == <<LBRACE>> \o Str(<<"x">>) \o <<COLON>> \o value \o <<RBRACE>>

Blocks ==
    { <<LBRACE, RBRACE>>,
      ObjX(<<"1">>),
      ObjX(Str(<<RBRACE>>)),
      ObjX(Str(<<LBRACE>>)),
      ObjX(Str(<<RBRACE, LBRACE>>)),
      ObjX(Str(<<RBRACK>>)),
      ObjX(<<LBRACK, "1", RBRACK>>),
      ObjX(<<LBRACE, RBRACE>>) }

Pending == <<"pending">>

\* the variables of the other runs, while the run is not theirs
ExtractIdle == xtext = <<>> /\ xresult = Pending

NotRun == [t |-> "NotRun"]

RoundTripIdle == rplan = NoPlan /\ rback = NotRun

ValidateIdle == vcand = <<>> /\ vresult = NotRun

RobotIdle ==
    /\ sim = "off"
    /\ llm_actions = <<>>
    /\ current_action_index = 0
    /\ robot = NotRun
    /\ stdout = <<>>
    /\ dt = 0
    /\ prev = NotRun
    /\ effects = <<>>
    /\ waiting = NotRun

-----------------------------------------------------------------------------
(***************************************************************************)
(* The state before generate_mission_plan is called.                       *)
(***************************************************************************)
PlannerIdle ==
    /\ pc = "idle"
    /\ instruction = <<>>
    /\ constraints = None
    /\ max_attempts = 0
    /\ attempt = 0
    /\ messages = <<>>
    /\ text = <<>>
    /\ json_text = None
    /\ plan = NoPlan
    /\ error = NoError
    /\ backend = <<>>
    /\ sent = <<>>
    /\ replies = <<>>

(***************************************************************************)
(* A run of the extractor alone on one text.                               *)
(***************************************************************************)
InitExtract ==
    /\ PlannerIdle
    /\ RobotIdle
    /\ RoundTripIdle
    /\ ValidateIdle
    /\ \E pre \in SeqsUpTo(ProseUnits, MaxProseBefore),
          block \in Blocks \cup {<<>>},
          post \in SeqsUpTo(ProseUnits, MaxProseAfter) :
             xtext = pre \o block \o post
    /\ xresult = Pending

ExtractJsonBlock ==
    /\ xresult = Pending
    /\ xresult' = _extract_json_block(xtext)
    /\ UNCHANGED <<xtext, plannerVars, roundTripVars, validateVars, robotVars>>

NextExtract == ExtractJsonBlock

SpecExtract == InitExtract /\ [][NextExtract]_vars

-----------------------------------------------------------------------------
(***************************************************************************)
(* The replies a generator gives, as JSON texts and prose.                 *)
(***************************************************************************)
\* {"k1": v1, "k2": v2}
Obj1(k, v) == <<LBRACE>> \o Str(<<k>>) \o <<COLON>> \o v \o <<RBRACE>>

Obj2(k1, v1, k2, v2) ==
    <<LBRACE>> \o Str(<<k1>>) \o <<COLON>> \o v1 \o <<COMMA, BLANK>>
    \o Str(<<k2>>) \o <<COLON>> \o v2 \o <<RBRACE>>

Arr1(v) == <<LBRACK>> \o v \o <<RBRACK>>

\* {"action": "wait", "parameters": {"duration": <duration>}}
WaitAction(duration) ==
    Obj2("action", Str(<<"wait">>), "parameters", Obj1("duration", duration))

\* a plan the schema accepts
GoodPlanText ==
    Obj2("mission_name", Str(<<"survey">>), "actions", Arr1(WaitAction(Str(<<"2">>))))

\* the schema's defaults: no "actions" key
MinimalPlanText == Obj1("mission_name", Str(<<"survey">>))

\* mission_name is missing
MissingNameText == Obj1("actions", <<LBRACK, RBRACK>>)

\* a parameter value that is a number, not a string
NumberParamText ==
    Obj2("mission_name", Str(<<"survey">>), "actions", Arr1(WaitAction(<<"2">>)))

\* a JSON array where the plan object is expected
ArrayText == <<LBRACK, "1", RBRACK>>

\* a plan between two stretches of prose
ProsePlanText == <<"here", BLANK>> \o GoodPlanText \o <<BLANK, "done">>

\* a plan whose mission_name holds a brace
BraceNameText == Obj1("mission_name", Str(<<RBRACE>>))

\* no JSON at all
NoiseText == <<"sorry", BLANK, "no", BLANK, "plan">>

ReplyTexts ==
    { GoodPlanText, MinimalPlanText, MissingNameText, NumberParamText, ArrayText,
      ProsePlanText, BraceNameText, NoiseText }

\* what the backend may do on one generator call
BackendOutcomes ==
    { Payload(<<ChunkLine(t)>>) : t \in ReplyTexts }
    \cup
    { NetworkError,
      \* a streamed reply: two chunks, a blank line, the closing empty chunk
      Payload(<<ChunkLine(SubSeq(GoodPlanText, 1, 5)),
                ChunkLine(SubSeq(GoodPlanText, 6, Len(GoodPlanText))),
                BlankLine, ChunkLine(<<>>)>>),
      \* a body that is not JSON (an HTML error page)
      Payload(<<GarbageLine>>),
      \* a JSON error object instead of chunks: {"error": "model not found"}
      Payload(<<ErrorLine>>),
      \* a JSON number as a line
      Payload(<<NumberLine>>) }

Instructions == { <<BLANK, "survey", BLANK, "zone", BLANK>> }

Constraints == { None, <<"slow">> }

-----------------------------------------------------------------------------
(***************************************************************************)
(* One call of MissionPlanner.generate_mission_plan.                       *)
(***************************************************************************)
Init ==
    /\ PlannerIdle
    /\ RobotIdle
    /\ ExtractIdle
    /\ RoundTripIdle
    /\ ValidateIdle

\* the call, up to the head of the loop
GenerateMissionPlan(instr, constr, n) ==
    /\ pc = "idle"
    /\ instruction' = instr
    /\ constraints' = constr
    /\ max_attempts' = n
    /\ messages' = _build_prompt(instr, constr)
    /\ IF 1 <= LastAttempt(n)
       THEN /\ pc' = "loop"
            /\ attempt' = 1
            /\ error' = error
       ELSE /\ pc' = "raised"
            /\ attempt' = attempt
            /\ error' = RuntimeError
    /\ UNCHANGED <<text, json_text, plan, backend, sent, replies, extractVars, roundTripVars,
                   validateVars, robotVars>>

\* one pass of the loop: the generator call, extraction, validation and what follows
Attempt(outcome) ==
    /\ pc = "loop"
    /\ backend' = Append(backend, outcome)
    /\ sent' = Append(sent, messages)
    /\ LET r == generate(messages, outcome)
           b == LoopBody(messages, r.content)
       IN  IF r.raised
           THEN /\ pc' = "raised"
                /\ error' = r.exc
                /\ UNCHANGED <<attempt, messages, text, json_text, plan, replies>>
           ELSE /\ text' = r.content
                /\ replies' = Append(replies, r.content)
                /\ json_text' = b.json_text
                /\ plan' = b.plan
                /\ messages' = b.messages
                /\ IF b.returned
                   THEN /\ pc' = "returned"
                        /\ UNCHANGED <<attempt, error>>
                   ELSE IF attempt < LastAttempt(max_attempts)
                   THEN /\ pc' = "loop"
                        /\ attempt' = attempt + 1
                        /\ error' = error
                   ELSE /\ pc' = "raised"
                        /\ error' = RuntimeError
                        /\ attempt' = attempt
    /\ UNCHANGED <<instruction, constraints, max_attempts, extractVars, roundTripVars,
                   validateVars, robotVars>>

Next ==
    \/ \E instr \in Instructions, constr \in Constraints, n \in 0..MaxAttempts :
           GenerateMissionPlan(instr, constr, n)
    \/ \E outcome \in BackendOutcomes : Attempt(outcome)

Spec == Init /\ [][Next]_vars

-----------------------------------------------------------------------------
(***************************************************************************)
(* Properties of generate_mission_plan.                                    *)
(***************************************************************************)
RECURSIVE IsInfixFrom(_, _, _)
IsInfixFrom(sub, s, i) ==
    IF i + Len(sub) - 1 > Len(s) THEN FALSE
    ELSE IF SubSeq(s, i, i + Len(sub) - 1) = sub THEN TRUE
    ELSE IsInfixFrom(sub, s, i + 1)

\* sub occurs in s as a contiguous stretch
IsInfix(sub, s) == IsInfixFrom(sub, s, 1)

\* the number of generator calls made so far
Calls == Len(backend)

\* a reply from which a candidate is extracted
Extractable(t) == _extract_json_block(t) # None

\* a reply whose candidate the schema accepts
Valid(t) == Extractable(t) /\ model_validate_json(_extract_json_block(t)).ok

\* a reply whose candidate the schema rejects
Rejected(t) == Extractable(t) /\ ~model_validate_json(_extract_json_block(t)).ok

\* every generator call so far returned a reply
NoCallRaised == Len(replies) = Len(backend)

\* C1: for max_attempts >= 1, when no reply yields an extractable, schema-valid
\* plan, the generator is called exactly max_attempts times (never more, and the
\* loop does not stop before) and the call ends with the attempts-exhausted
\* RuntimeError; no plan is returned.
C1_ExactlyMaxAttemptsCalls ==
    (pc # "idle" /\ max_attempts >= 1 /\ NoCallRaised
        /\ \A k \in 1..Len(replies) : ~Valid(replies[k]))
    => /\ Calls <= max_attempts
       /\ pc # "returned"
       /\ plan = NoPlan
       /\ pc = "loop" => Calls < max_attempts /\ attempt = Calls + 1
       /\ pc = "raised" => Calls = max_attempts /\ error = RuntimeError

C1_Witness ==
    /\ pc = "raised"
    /\ error = RuntimeError
    /\ max_attempts = 3
    /\ Calls = 3
    /\ \A k \in 1..3 : replies[k] = NoiseText

\* C2: with max_attempts >= 2, when the first reply's candidate fails schema
\* validation and the second reply extracts and validates, the call returns the
\* second reply's plan after exactly 2 generator calls, and the history the second
\* call received holds a system message that embeds the first validation error.
C2_RepairAfterValidationError ==
    (max_attempts >= 2 /\ Len(replies) >= 2
        /\ Rejected(replies[1]) /\ Valid(replies[2]))
    => /\ pc = "returned"
       /\ Calls = 2
       /\ plan = model_validate_json(_extract_json_block(replies[2])).plan
       /\ LET e == model_validate_json(_extract_json_block(replies[1])).errors
          IN  /\ e # <<>>
              /\ \E i \in 1..Len(sent[2]) :
                    /\ sent[2][i].role = "system"
                    /\ IsInfix(<<"Validation error: ">> \o ErrorText(e),
                               sent[2][i].content)

C2_Witness ==
    /\ pc = "returned"
    /\ Calls = 2
    /\ replies[1] = NumberParamText
    /\ replies[2] = ProsePlanText

\* C3: as soon as a reply extracts and validates the plan is returned: a valid
\* reply is always the latest one, the call has returned its plan, and the number
\* of generator calls is the index of the first valid reply.
C3_ReturnsAtFirstValidReply ==
    /\ \A k \in 1..Len(replies) :
          Valid(replies[k])
          => /\ k = Calls
             /\ pc = "returned"
             /\ plan = model_validate_json(_extract_json_block(replies[k])).plan
    /\ pc = "returned" => NoCallRaised /\ Calls >= 1 /\ Valid(replies[Calls])

C3_Witness ==
    /\ pc = "returned"
    /\ Calls = 2
    /\ max_attempts = 3
    /\ ~Valid(replies[1])

\* the fields of a plan have the types the schema declares
SchemaValid(p) ==
    /\ p.t = "MissionPlan"
    /\ p.mission_name.t = "str"
    /\ \A i \in 1..Len(p.actions) :
          /\ p.actions[i].action.t = "str"
          /\ \A j \in 1..Len(p.actions[i].parameters) :
                p.actions[i].parameters[j][2].t = "str"

\* C4: a plan reaches the caller only when, in that same attempt, the extractor
\* produced a candidate from the reply and the schema accepted it; the plan is
\* then the validated one and has the schema's types.  Otherwise no plan is held.
C4_OnlyValidatedPlans ==
    /\ pc = "returned"
       => /\ json_text # None
          /\ json_text = _extract_json_block(text)
          /\ text = replies[Calls]
          /\ model_validate_json(json_text).ok
          /\ plan = model_validate_json(json_text).plan
          /\ SchemaValid(plan)
    /\ pc # "returned" => plan = NoPlan

C4_Witness ==
    /\ pc = "returned"
    /\ text = ProsePlanText
    /\ json_text = GoodPlanText
    /\ Len(plan.actions) = 1

\* the corrective message the loop appends after reply t
CorrectionFor(t) ==
    IF ~Extractable(t) THEN NoJsonCorrection
    ELSE ValidationCorrection(model_validate_json(_extract_json_block(t)).errors)

\* the number of replies that did not end the call with a plan
FailedAttempts == IF pc = "returned" THEN Len(replies) - 1 ELSE Len(replies)

\* C5: the history only grows by appending: positions 1 and 2 keep the system
\* prompt and the user instruction, every failed attempt has appended exactly one
\* corrective system message, in order, and what the k-th generator call received
\* is the first k + 1 messages of the history (the 2 initial messages and the k - 1
\* earlier corrections).
C5_HistoryAppendOnly ==
    pc # "idle"
    => /\ Len(messages) = 2 + FailedAttempts
       /\ SubSeq(messages, 1, 2) = _build_prompt(instruction, constraints)
       /\ messages[1].role = "system" /\ messages[2].role = "user"
       /\ \A i \in 1..FailedAttempts :
             /\ messages[2 + i].role = "system"
             /\ messages[2 + i] = CorrectionFor(replies[i])
       /\ \A k \in 1..Len(sent) :
             /\ Len(sent[k]) = k + 1
             /\ sent[k] = SubSeq(messages, 1, k + 1)

C5_Witness ==
    /\ Len(sent) = 3
    /\ Len(messages) = 5
    /\ messages[3] = NoJsonCorrection
    /\ messages[4] # NoJsonCorrection

\* a backend outcome on which OllamaLLM.generate raises
RaisingOutcome(o) ==
    \/ o.kind = "network_error"
    \/ \E i \in 1..Len(o.lines) :
          /\ o.lines[i].kind = "number"
          /\ \A j \in 1..(i - 1) : o.lines[j].kind # "number"

\* C6: when the generator call raises, the failure leaves generate_mission_plan at
\* once: it is the last generator call, no corrective message was appended for it,
\* no reply was recorded, the loop counter did not move, and the exception is the
\* generator's, not the attempts-exhausted RuntimeError.
C6_GeneratorFailurePropagates ==
    \A k \in 1..Len(backend) :
        RaisingOutcome(backend[k])
        => /\ k = Calls
           /\ pc = "raised"
           /\ error \in {ConnectionError, TypeError}
           /\ error = (IF backend[k].kind = "network_error"
                       THEN ConnectionError ELSE TypeError)
           /\ messages = sent[k]
           /\ Len(replies) = k - 1
           /\ attempt = k
           /\ plan = NoPlan

C6_Witness ==
    /\ pc = "raised"
    /\ error = ConnectionError
    /\ max_attempts = 3
    /\ Calls = 2
    /\ Len(messages) = 3

\* a backend failure: the network call fails, or the body is malformed (a line
\* that is not a JSON object carrying a "response")
BackendFailure(o) ==
    \/ o.kind = "network_error"
    \/ \E i \in 1..Len(o.lines) :
          \/ o.lines[i].kind \in {"garbage", "number"}
          \/ o.lines[i].kind = "object" /\ ~o.lines[i].has_response

\* C7: a backend failure (network error or malformed payload) surfaces as an error
\* of its own: the call on which it happens is the last one, it ends the call with
\* an exception that is not the attempts-exhausted RuntimeError, and it is not
\* turned into a reply: no reply is recorded and no corrective message appended.
C7_BackendFailureIsDistinct ==
    \A k \in 1..Len(backend) :
        BackendFailure(backend[k])
        => /\ k = Calls
           /\ pc = "raised"
           /\ error.type # "RuntimeError"
           /\ Len(replies) = k - 1
           /\ messages = sent[k]

\* the exception e was built with the text t
Carries(e, t) == \E i \in 1..Len(e.args) : IsInfix(t, e.args[i])

\* C8: when every attempt failed, the RuntimeError that ends the call carries the
\* last raw reply text and, when the last attempt failed validation, the text of
\* that validation error.
C8_TerminalErrorCarriesDiagnosis ==
    (pc = "raised" /\ error.type = "RuntimeError" /\ Len(replies) >= 1)
    => /\ Carries(error, text)
       /\ Rejected(text)
          => Carries(error,
                 ErrorText(model_validate_json(_extract_json_block(text)).errors))

-----------------------------------------------------------------------------
(***************************************************************************)
(* Properties of _extract_json_block.                                      *)
(***************************************************************************)
\* the stretches <<i, j>> of s that are a well-formed JSON object
ObjectSpans(s) ==
    { span \in (1..Len(s)) \X (1..Len(s)) :
        /\ span[1] < span[2]
        /\ s[span[1]] = LBRACE
        /\ s[span[2]] = RBRACE
        /\ json_loads(SubSeq(s, span[1], span[2])).ok }

\* those that do not lie inside another one (inside an object, or inside one of
\* its strings)
TopObjectSpans(s) ==
    { span \in ObjectSpans(s) :
        \A other \in ObjectSpans(s) :
            (other[1] <= span[1] /\ span[2] <= other[2]) => other = span }

\* C9: for a text that holds exactly one well-formed JSON object, the rest being
\* prose, _extract_json_block returns exactly the stretch of that object.
C9_ReturnsTheOneObject ==
    (xresult # Pending /\ Cardinality(TopObjectSpans(xtext)) = 1)
    => \E span \in TopObjectSpans(xtext) :
          xresult = SubSeq(xtext, span[1], span[2])

RECURSIVE BalancedEnd(_, _, _, _)
\* where the block opened at position a closes: the first position at which the
\* depth counted for s[a] and its closing delimiter is back to 0; 0 if nowhere
BalancedEnd(s, a, i, depth) ==
    LET close == IF s[a] = LBRACE THEN RBRACE ELSE RBRACK
    IN  IF i > Len(s) THEN 0
        ELSE IF s[i] = s[a] THEN BalancedEnd(s, a, i + 1, depth + 1)
        ELSE IF s[i] = close
             THEN IF depth - 1 = 0 THEN i ELSE BalancedEnd(s, a, i + 1, depth - 1)
        ELSE BalancedEnd(s, a, i + 1, depth)

\* the opening delimiters after position e whose balanced block parses as JSON
LaterBlocks(s, e) ==
    { a \in (e + 1)..Len(s) :
        /\ s[a] \in {LBRACE, LBRACK}
        /\ BalancedEnd(s, a, a, 0) # 0
        /\ json_loads(SubSeq(s, a, BalancedEnd(s, a, a, 0))).ok }

Min(S) == CHOOSE x \in S : \A y \in S : x <= y

\* C10: when the first balanced span, from the first opening delimiter, does not
\* parse as JSON and a later balanced block does, _extract_json_block returns the
\* first such later block, not None.
C10_ContinuesToLaterBlock ==
    LET start == FirstOpen(xtext, 1)
        e     == BalancedEnd(xtext, start, start, 0)
    IN  (xresult # Pending /\ start # 0 /\ e # 0
            /\ ~json_loads(SubSeq(xtext, start, e)).ok
            /\ LaterBlocks(xtext, e) # {})
        => LET a == Min(LaterBlocks(xtext, e))
           IN  xresult = SubSeq(xtext, a, BalancedEnd(xtext, a, a, 0))

-----------------------------------------------------------------------------
(***************************************************************************)
(* MissionPlan.model_dump_json, as run_planner.py and schemas.py call it,  *)
(* and the way back through _extract_json_block and model_validate_json.   *)
(* With indent the serialiser puts white space after every opening         *)
(* bracket, after every comma, after every colon and before every closing  *)
(* bracket of a container that is not empty.  The strings of the plans     *)
(* below hold no quote and no backslash, so none is escaped.               *)
(***************************************************************************)
StrVal(units) == [t |-> "str", v |-> units]

Gap(indent) == IF indent THEN <<BLANK>> ELSE <<>>

RECURSIVE Join(_, _)
\* the items, a comma between two of them
Join(items, indent) ==
    IF items = <<>> THEN <<>>
    ELSE IF Len(items) = 1 THEN items[1]
    ELSE items[1] \o <<COMMA>> \o Gap(indent) \o Join(Tail(items), indent)

\* a container: open, the items, close
Container(open, items, close, indent) ==
    IF items = <<>> THEN <<open, close>>
    ELSE <<open>> \o Gap(indent) \o Join(items, indent) \o Gap(indent) \o <<close>>

Member(key, value, indent) == Str(key) \o <<COLON>> \o Gap(indent) \o value

DumpParameters(d, indent) ==
    Container(LBRACE, [i \in 1..Len(d) |-> Member(d[i][1], Str(d[i][2].v), indent)],
              RBRACE, indent)

DumpAction(a, indent) ==
    Container(LBRACE,
              << Member(<<"action">>, Str(a.action.v), indent),
                 Member(<<"parameters">>, DumpParameters(a.parameters, indent), indent) >>,
              RBRACE, indent)

model_dump_json(p, indent) ==
    Container(LBRACE,
              << Member(<<"mission_name">>, Str(p.mission_name.v), indent),
                 Member(<<"actions">>,
                        Container(LBRACK,
                                  [i \in 1..Len(p.actions) |-> DumpAction(p.actions[i], indent)],
                                  RBRACK, indent),
                        indent) >>,
              RBRACE, indent)

\* the plans that are serialised: the names and the actions they are made of
PlanNames ==
    { <<"survey">>, <<"a", BLANK, "b">>, <<>>, <<RBRACE>>, <<LBRACE>>,
      <<LBRACE, "a", RBRACE>>, <<LBRACK>> }

PlanActions ==
    { [action |-> StrVal(<<"pick_up">>), parameters |-> <<>>],
      [action |-> StrVal(<<"wait">>),
       parameters |-> << <<(<<"duration">>), StrVal(<<"2">>)>> >>],
      [action |-> StrVal(<<"move_to">>),
       parameters |-> << <<(<<"waypoint">>), StrVal(<<RBRACE, LBRACE>>)>> >>] }

MissionPlan(name, acts) ==
    [t |-> "MissionPlan", mission_name |-> StrVal(name), actions |-> acts]

NoJson == [t |-> "NoJson"]

ValidationError(errors) == [t |-> "ValidationError", errors |-> errors]

\* the text goes the way a reply goes in generate_mission_plan
ReadBack(s) ==
    LET jt == _extract_json_block(s)
    IN  IF jt = None THEN NoJson
        ELSE LET v == model_validate_json(jt)
             IN  IF v.ok THEN v.plan ELSE ValidationError(v.errors)

InitRoundTrip ==
    /\ PlannerIdle
    /\ RobotIdle
    /\ ExtractIdle
    /\ ValidateIdle
    /\ \E name \in PlanNames, acts \in SeqsUpTo(PlanActions, MaxPlanActions) :
           rplan = MissionPlan(name, acts)
    /\ rback = NotRun

RoundTrip(indent) ==
    /\ rback = NotRun
    /\ rback' = ReadBack(model_dump_json(rplan, indent))
    /\ UNCHANGED <<rplan, plannerVars, extractVars, validateVars, robotVars>>

NextRoundTrip == \E indent \in BOOLEAN : RoundTrip(indent)

SpecRoundTrip == InitRoundTrip /\ [][NextRoundTrip]_vars

\* C11: serialising a plan to JSON, extracting the block from that text and
\* validating it gives back the same plan, whatever braces its strings hold.
C11_RoundTripGivesThePlanBack ==
    rback # NotRun => rback = rplan

\* the validator alone does give the plan back: the loss is the extractor's
DumpThenValidate ==
    \A indent \in BOOLEAN :
        LET v == model_validate_json(model_dump_json(rplan, indent))
        IN  v.ok /\ v.plan = rplan

-----------------------------------------------------------------------------
(***************************************************************************)
(* MissionPlan.model_validate_json on one candidate document.  A document  *)
(* is written from parts: a member is absent, a string, a number, an       *)
(* array or a dict; an action has the members "action" and "parameters".   *)
(***************************************************************************)
AbsentPart == [kind |-> "absent"]

StrPart(units) == [kind |-> "str", v |-> units]

NumPart == [kind |-> "num", v |-> <<"2">>]

ArrPart == [kind |-> "arr", v |-> <<>>]

DictPart(pairs) == [kind |-> "dict", v |-> pairs]

ListPart(elems) == [kind |-> "list", v |-> elems]

ActionPart(name, params) == [action |-> name, parameters |-> params]

Param(key, value) == <<(<<key>>), value>>

\* the JSON text of a string or a number
RenderScalar(part) == IF part.kind = "str" THEN Str(part.v) ELSE part.v

\* the JSON text of a part that is not absent
Render(part) ==
    CASE part.kind \in {"str", "num"} -> RenderScalar(part)
      [] part.kind = "arr"  -> <<LBRACK, RBRACK>>
      [] part.kind = "dict" ->
             Container(LBRACE,
                       [i \in 1..Len(part.v) |->
                           Member(part.v[i][1], RenderScalar(part.v[i][2]), FALSE)],
                       RBRACE, FALSE)

\* the members that are present, in order
Members(pairs) ==
    LET present == SelectSeq(pairs, LAMBDA m : m[2].kind # "absent")
    IN  Container(LBRACE,
                  [i \in 1..Len(present) |-> Member(present[i][1], present[i][2].text, FALSE)],
                  RBRACE, FALSE)

RenderAction(a) ==
    Members(<< <<(<<"action">>), [kind |-> a.action.kind,
                                  text |-> IF a.action.kind = "absent" THEN <<>>
                                           ELSE Render(a.action)]>>,
               <<(<<"parameters">>), [kind |-> a.parameters.kind,
                                      text |-> IF a.parameters.kind = "absent" THEN <<>>
                                               ELSE Render(a.parameters)]>> >>)

RenderDocument(c) ==
    Members(<< <<(<<"mission_name">>), [kind |-> c.name.kind,
                                        text |-> IF c.name.kind = "absent" THEN <<>>
                                                 ELSE Render(c.name)]>>,
               <<(<<"actions">>), [kind |-> c.actions.kind,
                                   text |-> IF c.actions.kind = "absent" THEN <<>>
                                            ELSE Container(LBRACK,
                                                   [i \in 1..Len(c.actions.v) |->
                                                       RenderAction(c.actions.v[i])],
                                                   RBRACK, FALSE)]>> >>)

NameParts == { AbsentPart, StrPart(<<>>), StrPart(<<"survey">>), NumPart }

ActionParts ==
    { ActionPart(StrPart(<<"move_to">>),
                 DictPart(<<Param("target_x", StrPart(<<"3">>)),
                            Param("target_y", StrPart(<<"4">>))>>)),
      ActionPart(StrPart(<<"wait">>), DictPart(<<Param("duration", StrPart(<<"2">>))>>)),
      ActionPart(StrPart(<<"pick_up">>), DictPart(<<>>)),
      ActionPart(StrPart(<<"drop_off">>), AbsentPart),
      \* the action of the example in schemas.py
      ActionPart(StrPart(<<"scan_area">>),
                 DictPart(<<Param("resolution", StrPart(<<"high">>))>>)),
      ActionPart(StrPart(<<"move_to">>), DictPart(<<Param("target", StrPart(<<"B1">>))>>)),
      ActionPart(StrPart(<<"pick_up">>), DictPart(<<Param("target_x", StrPart(<<"3">>))>>)),
      ActionPart(StrPart(<<"wait">>), DictPart(<<Param("duration", NumPart)>>)),
      ActionPart(AbsentPart, DictPart(<<>>)),
      ActionPart(NumPart, AbsentPart),
      ActionPart(StrPart(<<"wait">>), ArrPart) }

InitValidate ==
    /\ PlannerIdle
    /\ RobotIdle
    /\ ExtractIdle
    /\ RoundTripIdle
    /\ \E name \in NameParts :
          \/ vcand = [name |-> name, actions |-> AbsentPart]
          \/ \E acts \in SeqsUpTo(ActionParts, MaxPlanActions) :
                 vcand = [name |-> name, actions |-> ListPart(acts)]
    /\ vresult = NotRun

Validate ==
    /\ vresult = NotRun
    /\ vresult' = model_validate_json(RenderDocument(vcand))
    /\ UNCHANGED <<vcand, plannerVars, extractVars, roundTripVars, robotVars>>

NextValidate == Validate

SpecValidate == InitValidate /\ [][NextValidate]_vars

\* C12: validation rejects every candidate whose mission_name is absent or
\* the empty string, so no accepted plan has an empty mission_name.
C12_NameIsNotEmpty ==
    (vresult # NotRun /\ vresult.ok)
        => /\ vcand.name.kind = "str"
           /\ vcand.name.v # <<>>
           /\ vresult.plan.mission_name.v # <<>>

\* the vocabulary and the parameter sets of SYSTEM_PROMPT
Fits(a) ==
    /\ a.action.kind = "str"
    /\ a.parameters.kind \in {"absent", "dict"}
    /\ LET keys == IF a.parameters.kind = "absent" THEN {}
                   ELSE {a.parameters.v[i][1][1] : i \in 1..Len(a.parameters.v)}
       IN  CASE a.action.v = <<"move_to">> ->
                   {"target_x", "target_y"} \subseteq keys
                   /\ keys \subseteq {"target_x", "target_y", "speed"}
             [] a.action.v = <<"take_photo">> -> keys \subseteq {"resolution", "zoom"}
             [] a.action.v = <<"wait">> -> keys = {"duration"}
             [] a.action.v \in {<<"pick_up">>, <<"drop_off">>} -> keys = {}
             [] OTHER -> FALSE

\* C13 as stated: an accepted candidate holds only actions of the vocabulary
\* with the parameters of their name.
C13_VocabularyIsEnforced ==
    (vresult # NotRun /\ vresult.ok /\ vcand.actions.kind = "list")
        => \A i \in 1..Len(vcand.actions.v) : Fits(vcand.actions.v[i])

WellFormedAction(a) ==
    /\ a.action.kind = "str"
    /\ \/ a.parameters.kind = "absent"
       \/ /\ a.parameters.kind = "dict"
          /\ \A i \in 1..Len(a.parameters.v) : a.parameters.v[i][2].kind = "str"

WellFormedDocument(c) ==
    /\ c.name.kind = "str"
    /\ \/ c.actions.kind = "absent"
       \/ \A i \in 1..Len(c.actions.v) : WellFormedAction(c.actions.v[i])

\* C13, amended: validation checks the shape only.  A candidate is accepted
\* exactly when mission_name is a string, and every action has a string
\* "action" and, if it has "parameters", a dict of string values; the name
\* of the action and the keys of its parameters are not looked at.
C13_ShapeOnly ==
    vresult # NotRun => (vresult.ok <=> WellFormedDocument(vcand))

C13_Witness ==
    /\ vresult # NotRun
    /\ vresult.ok
    /\ vcand.actions.kind = "list"
    /\ \E i \in 1..Len(vcand.actions.v) :
          /\ vcand.actions.v[i].action.v = <<"scan_area">>
          /\ vresult.plan.actions[i].action.v = <<"scan_area">>

-----------------------------------------------------------------------------
(***************************************************************************)
(* simulation/pygame_simulation.py.  Numbers are whole: a time is in       *)
(* milliseconds (clock.tick returns milliseconds, dt is that over 1000), a *)
(* length is in hundredths of a pixel, and a number read from a string is  *)
(* in thousandths.  The plans below keep every distance and every step a   *)
(* whole number of these units, so no division rounds.                     *)
(***************************************************************************)
ROBOT_MAX_SPEED == 150   \* pixels per second

PX == 100                \* one pixel, in hundredths of a pixel

\* the value of a run of digits, and of the same run after a decimal point,
\* in thousandths
DigitRuns ==
    [u \in {"0", "1", "2", "5", "100", "160", "180"} |->
        CASE u = "0" -> [int |-> 0, frac |-> 0]
          [] u = "1" -> [int |-> 1, frac |-> 100]
          [] u = "2" -> [int |-> 2, frac |-> 200]
          [] u = "5" -> [int |-> 5, frac |-> 500]
          [] u = "100" -> [int |-> 100, frac |-> 100]
          [] u = "160" -> [int |-> 160, frac |-> 160]
          [] u = "180" -> [int |-> 180, frac |-> 180]]

IsDigits(u) == u \in DOMAIN DigitRuns

DOT == "."

Signs == {"+", "-"}

\* float(s) of "d", "d.", "d.d" or ".d", in thousandths
Mantissa(b) ==
    CASE Len(b) = 1 -> 1000 * DigitRuns[b[1]].int
      [] Len(b) = 2 /\ b[1] = DOT -> DigitRuns[b[2]].frac
      [] Len(b) = 2 /\ b[2] = DOT -> 1000 * DigitRuns[b[1]].int
      [] Len(b) = 3 -> 1000 * DigitRuns[b[1]].int + DigitRuns[b[3]].frac

Signed(u) ==
    IF u # <<>> /\ u[1] \in Signs
    THEN (IF u[1] = "-" THEN -1 ELSE 1) * Mantissa(Tail(u))
    ELSE Mantissa(u)

IsMantissa(b) ==
    \/ Len(b) = 1 /\ IsDigits(b[1])
    \/ Len(b) = 2 /\ IsDigits(b[1]) /\ b[2] = DOT
    \/ Len(b) = 2 /\ b[1] = DOT /\ IsDigits(b[2])
    \/ Len(b) = 3 /\ IsDigits(b[1]) /\ b[2] = DOT /\ IsDigits(b[3])

\* float(s) for a str s: [ok, v]; with ok false it raises ValueError.  Texts
\* with an exponent, an underscore, "inf" or "nan" are not among the inputs.
float(s) ==
    LET u == Strip(s)
        b == IF u # <<>> /\ u[1] \in Signs THEN Tail(u) ELSE u
    IN  IF IsMantissa(b) THEN [ok |-> TRUE, v |-> Signed(u)]
        ELSE [ok |-> FALSE, v |-> 0]

\* the length of the match of [-+]?\d*\.?\d+ that begins at unit i, 0 if none
MatchAt(s, i) ==
    LET k == IF s[i] \in Signs THEN i + 1 ELSE i
        digits(j) == j <= Len(s) /\ IsDigits(s[j])
        dot(j) == j <= Len(s) /\ s[j] = DOT
        n == IF digits(k) THEN (IF dot(k + 1) /\ digits(k + 2) THEN 3 ELSE 1)
             ELSE IF dot(k) /\ digits(k + 1) THEN 2
             ELSE 0
    IN  IF n = 0 THEN 0 ELSE (k - i) + n

\* def extract_number(value, default=1.0), in thousandths; a value that is
\* not a str is the int 1 of .get("duration", 1)
extract_number(value) ==
    IF value.t # "str" THEN 1000 * value.v
    ELSE LET starts == {i \in 1..Len(value.v) : MatchAt(value.v, i) > 0}
             i == CHOOSE m \in starts : \A n \in starts : m <= n
         IN  IF starts # {}
             THEN Signed(SubSeq(value.v, i, i + MatchAt(value.v, i) - 1))
             ELSE 1000

\* a length read from a string, in hundredths of a pixel
Length(thousandths) == thousandths \div 10

\* ROBOT_MAX_SPEED * dt, in hundredths of a pixel
MaxStep(ms) == (ROBOT_MAX_SPEED * ms) \div 10

RECURSIVE Newton(_, _)
Newton(n, r) ==
    LET q == (r + n \div r) \div 2
    IN  IF q >= r THEN r ELSE Newton(n, q)

\* math.hypot(dx, dy): the root of dx*dx + dy*dy
hypot(dx, dy) ==
    LET n == dx * dx + dy * dy
    IN  IF n = 0 THEN 0 ELSE Newton(n, n)

Abs(n) == IF n < 0 THEN -n ELSE n

RECURSIVE GCD(_, _)
GCD(a, b) == IF b = 0 THEN a ELSE GCD(b, a % b)

\* math.atan2(dy, dx): an angle is kept as the direction it points in, in
\* lowest terms; the angle 0 is the direction <<1, 0>>
atan2(dy, dx) ==
    LET g == GCD(Abs(dx), Abs(dy))
    IN  IF g = 0 THEN <<1, 0>> ELSE <<dx \div g, dy \div g>>

NoTarget == <<>>

\* Robot.__init__
Robot(x, y) ==
    [x |-> x, y |-> y, angle |-> <<1, 0>>, speed |-> 0, angular_speed |-> 0,
     target_pos |-> NoTarget, carrying_sample |-> FALSE, wait_timer |-> 0]

\* one "if self.target_pos:" block of Robot.step
MoveBlock(r, ms) ==
    IF r.target_pos = NoTarget THEN r
    ELSE LET dx == r.target_pos[1] - r.x
             dy == r.target_pos[2] - r.y
             dist == hypot(dx, dy)
             move_dist == IF MaxStep(ms) <= dist THEN MaxStep(ms) ELSE dist
         IN  IF dist < PX
             THEN [r EXCEPT !.x = r.target_pos[1], !.y = r.target_pos[2],
                            !.target_pos = NoTarget]
             ELSE [r EXCEPT !.x = @ + (dx * move_dist) \div dist,
                            !.y = @ + (dy * move_dist) \div dist,
                            !.angle = atan2(dy, dx)]

\* a step with the movement block once only
MovementOnce(r, ms) == MoveBlock(r, ms)

\* the two movement blocks at the end of Robot.step
Movement(r, ms) == MoveBlock(MoveBlock(r, ms), ms)

\* a pick_up that flips the flag
PickUpToggles(r) ==
    [robot |-> [r EXCEPT !.carrying_sample = ~@], printed |-> <<"Sample picked up!">>]

\* the pick_up branch: [robot, printed]
PickUp(r) ==
    IF ~r.carrying_sample
    THEN [robot |-> [r EXCEPT !.carrying_sample = TRUE], printed |-> <<"Sample picked up!">>]
    ELSE [robot |-> r, printed |-> <<>>]

\* the drop_off branch
DropOff(r) ==
    IF r.carrying_sample
    THEN [robot |-> [r EXCEPT !.carrying_sample = FALSE],
          printed |-> <<"Sample delivered to analysis center!">>]
    ELSE [robot |-> r, printed |-> <<>>]

\* float(params.get(key, default)): [ok, v] in hundredths of a pixel
Coordinate(params, key, default) ==
    IF HasKey(params, <<key>>)
    THEN LET f == float(Lookup(params, <<key>>).v)
         IN  [ok |-> f.ok, v |-> Length(f.v)]
    ELSE [ok |-> TRUE, v |-> default]

\* what Robot.step gives: the robot, the cursor, whether an exception left
\* it, the lines printed, whether the action was dispatched
Stepped(r, index, printed) ==
    [robot |-> r, index |-> index, raised |-> FALSE, printed |-> printed, dispatched |-> TRUE]

\* Robot.step(action, dt), with the global current_action_index
step(r, action, ms, index) ==
    LET params == action.parameters
        name == action.action.v
    IN  IF r.wait_timer > 0
        THEN [robot |-> [r EXCEPT !.wait_timer = @ - ms], index |-> index - 1,
              raised |-> FALSE, printed |-> <<>>, dispatched |-> FALSE]
        ELSE CASE name = <<"move_to">> ->
                    LET target_x == Coordinate(params, "target_x", r.x)
                        target_y == Coordinate(params, "target_y", r.y)
                    IN  IF ~target_x.ok \/ ~target_y.ok
                        THEN [robot |-> r, index |-> index, raised |-> TRUE,
                              printed |-> <<>>, dispatched |-> TRUE]
                        ELSE Stepped(Movement([r EXCEPT !.target_pos =
                                                   <<target_x.v, target_y.v>>], ms),
                                     index,
                                     IF HasKey(params, <<"waypoint">>)
                                     THEN <<"Waypoint">> ELSE <<>>)
               [] name = <<"pick_up">> ->
                    Stepped(Movement(PickUp(r).robot, ms), index, PickUp(r).printed)
               [] name = <<"drop_off">> ->
                    Stepped(Movement(DropOff(r).robot, ms), index, DropOff(r).printed)
               [] name = <<"take_photo">> ->
                    Stepped(Movement(r, ms), index,
                            <<"Photo taken!">> \o [i \in 1..Len(params) |-> params[i]])
               [] name = <<"wait">> ->
                    Stepped([r EXCEPT !.wait_timer =
                                extract_number(IF HasKey(params, <<"duration">>)
                                               THEN Lookup(params, <<"duration">>)
                                               ELSE [t |-> "int", v |-> 1])],
                            index, <<"Starting wait">>)
               [] OTHER -> Stepped(Movement(r, ms), index, <<>>)

\* the cursor moved on only when no target is set and no wait is active,
\* with step still counting it down during a wait
AdvanceWhenIdle(r, index) ==
    IF r.target_pos = NoTarget /\ r.wait_timer <= 0 THEN index + 1 ELSE index

\* the cursor that is always moved on
AdvanceAlways(r, index) == index + 1

\* main: "if robot.target_pos is None: current_action_index += 1"
Advance(r, index) == IF r.target_pos = NoTarget THEN index + 1 ELSE index

\* llm_actions[i] as Python reads it: an index below 0 counts from the end
Subscript(seq, i) ==
    IF 0 <= i /\ i < Len(seq) THEN [ok |-> TRUE, v |-> seq[i + 1]]
    ELSE IF i < 0 /\ -i <= Len(seq) THEN [ok |-> TRUE, v |-> seq[Len(seq) + i + 1]]
    ELSE [ok |-> FALSE, v |-> NotRun]

\* the plans the simulation runs: actions with their parameters
Action(name, params) == [action |-> StrVal(<<name>>), parameters |-> params]

Parameter(key, units) == <<(<<key>>), StrVal(units)>>

RobotActions ==
    { Action("move_to", <<Parameter("target_x", <<"160">>), Parameter("target_y", <<"180">>)>>),
      Action("move_to", <<Parameter("target_x", <<"160">>), Parameter("speed", <<"2">>)>>),
      Action("move_to", <<Parameter("target_x", <<"rock">>), Parameter("target_y", <<"180">>)>>),
      Action("wait", <<Parameter("duration", <<"2", DOT, "5", "s">>)>>),
      Action("wait", <<>>),
      Action("pick_up", <<>>),
      Action("drop_off", <<>>),
      Action("take_photo", <<Parameter("zoom", <<"2">>)>>),
      Action("scan_area", <<>>) }

\* dt = clock.tick(FPS) / 1000: the milliseconds a tick may have taken
TickMillis == {200, 1000}

\* main, from the Robot built at the analysis center to the head of the loop
InitRobot ==
    /\ PlannerIdle
    /\ ExtractIdle
    /\ RoundTripIdle
    /\ ValidateIdle
    /\ sim = "running"
    /\ llm_actions \in SeqsUpTo(RobotActions, MaxPlanActions)
    /\ current_action_index = 0
    /\ robot = Robot(100 * PX, 100 * PX)
    /\ stdout = <<>>
    /\ dt = 0
    /\ prev = NotRun
    /\ effects = <<>>
    /\ waiting = NotRun

\* one pass of the "while running" loop of main: the tick, Robot.step on the
\* action under the cursor and the move of the cursor
Tick(ms) ==
    /\ sim = "running"
    /\ dt' = ms
    /\ LET called == current_action_index < Len(llm_actions)
           action == Subscript(llm_actions, current_action_index)
           r == step(robot, action.v, ms, current_action_index)
           armed == called /\ action.ok /\ r.dispatched /\ ~r.raised
                    /\ action.v.action.v = <<"wait">>
       IN  /\ IF ~called
              THEN /\ prev' = [robot |-> robot, index |-> current_action_index,
                               stdout |-> stdout, effects |-> effects, stepped |-> FALSE,
                               dispatched |-> FALSE, step_index |-> current_action_index]
                   /\ UNCHANGED <<sim, current_action_index, robot, stdout, effects>>
              ELSE IF ~action.ok
              THEN /\ sim' = "crashed"
                   /\ prev' = [robot |-> robot, index |-> current_action_index,
                               stdout |-> stdout, effects |-> effects, stepped |-> FALSE,
                               dispatched |-> FALSE, step_index |-> current_action_index]
                   /\ UNCHANGED <<current_action_index, robot, stdout, effects>>
              ELSE /\ prev' = [robot |-> robot, index |-> current_action_index,
                               stdout |-> stdout, effects |-> effects, stepped |-> TRUE,
                               dispatched |-> r.dispatched, step_index |-> r.index]
                   /\ robot' = r.robot
                   /\ stdout' = stdout \o r.printed
                   /\ effects' = IF r.dispatched
                                    /\ (effects = <<>>
                                        \/ effects[Len(effects)] # current_action_index)
                                 THEN Append(effects, current_action_index)
                                 ELSE effects
                   /\ IF r.raised
                      THEN /\ sim' = "crashed"
                           /\ current_action_index' = r.index
                      ELSE /\ sim' = sim
                           /\ current_action_index' = Advance(r.robot, r.index)
           /\ waiting' =
                IF armed
                THEN [index |-> current_action_index, duration |-> r.robot.wait_timer,
                      elapsed |-> ms]
                ELSE IF waiting # NotRun /\ waiting.elapsed < waiting.duration
                THEN [waiting EXCEPT !.elapsed = @ + ms]
                ELSE waiting
    /\ UNCHANGED <<llm_actions, plannerVars, extractVars, roundTripVars, validateVars>>

NextRobot == \E ms \in TickMillis : Tick(ms)

SpecRobot == InitRobot /\ [][NextRobot]_vars

\* an iteration of "while running" has read the clock: dt = clock.tick(60) / 1000
Ticked == sim = "running" /\ dt' \in TickMillis

\* the loop of main keeps iterating while running is true, and the clock keeps
\* handing out new values of dt
SpecRobotTicking == SpecRobot /\ WF_dt(Ticked)

-----------------------------------------------------------------------------
(***************************************************************************)
(* Properties of Robot.step and of the loop of main.                       *)
(***************************************************************************)
\* the latest tick called Robot.step
Stepping == sim # "off" /\ prev # NotRun /\ prev.stepped

\* ... and step went past "if self.wait_timer > 0"
Dispatching == Stepping /\ prev.dispatched

\* the action the latest tick handed to step
PrevAction == Subscript(llm_actions, prev.index).v

\* the target of the move_to the latest tick dispatched
PrevTarget ==
    << Coordinate(PrevAction.parameters, "target_x", prev.robot.x).v,
       Coordinate(PrevAction.parameters, "target_y", prev.robot.y).v >>

\* the way to that target before the tick, and the way gone in the tick
Remaining == hypot(PrevTarget[1] - prev.robot.x, PrevTarget[2] - prev.robot.y)

Travelled == hypot(robot.x - prev.robot.x, robot.y - prev.robot.y)

Moving == Dispatching /\ sim = "running" /\ PrevAction.action.v = <<"move_to">>

Idle(r) == r.target_pos = NoTarget /\ r.wait_timer <= 0

\* C14: the loop moves the cursor on at the end of a tick only when, after
\* step, no target is set and no wait is active; it does not move it on in
\* the tick that arms a wait nor in a tick that counts a wait down.
C14_AdvanceOnlyWhenIdle ==
    (Stepping /\ sim = "running")
        => /\ (current_action_index = prev.step_index + 1) => Idle(robot)
           /\ (~prev.dispatched \/ PrevAction.action.v = <<"wait">>)
                 => current_action_index = prev.step_index

\* C15: actions take effect in list order: the actions dispatched so far
\* are the first ones of the plan, each once; an action is first dispatched
\* only when the one before has completed (no target set, no wait active);
\* an action handed to step during a wait changes nothing but the timer;
\* when the cursor has left the plan every action has been dispatched.
C15_InOrderNoneSkipped ==
    sim # "off"
        => /\ \A k \in 1..Len(effects) : effects[k] = k - 1
           /\ (Dispatching /\ Len(effects) = Len(prev.effects) + 1) => Idle(prev.robot)
           /\ (Stepping /\ ~prev.dispatched)
                 => /\ robot = [prev.robot EXCEPT !.wait_timer = robot.wait_timer]
                    /\ stdout = prev.stdout
                    /\ effects = prev.effects
           /\ (sim = "running" /\ current_action_index >= Len(llm_actions))
                 => Len(effects) = Len(llm_actions)

C15_Witness ==
    /\ sim = "running"
    /\ Len(llm_actions) = 2
    /\ llm_actions[1].action.v = <<"move_to">>
    /\ llm_actions[2].action.v = <<"wait">>
    /\ effects = <<0, 1>>
    /\ robot.x # 100 * PX

\* C16: a move_to whose target is within ROBOT_MAX_SPEED * dt of the robot
\* ends in that tick: the robot is on the target, target_pos is None and
\* the cursor has moved on by one.
C16_ArrivesWithinOneTick ==
    (Moving /\ Remaining <= MaxStep(dt))
        => /\ <<robot.x, robot.y>> = PrevTarget
           /\ robot.target_pos = NoTarget
           /\ current_action_index = prev.index + 1

C16_Witness ==
    /\ Moving
    /\ prev.robot.target_pos = NoTarget
    /\ Remaining >= PX
    /\ Remaining <= MaxStep(dt)
    /\ <<robot.x, robot.y>> = PrevTarget

\* C17: a wait of duration D is not complete while the ticks since it was
\* dispatched, its own included, add up to less than D: the timer holds what
\* is left, the cursor is still on the wait and the next action has not been
\* dispatched; once they add up to D the wait is complete.
C17_WaitLastsItsDuration ==
    (sim = "running" /\ waiting # NotRun)
        => IF waiting.elapsed < waiting.duration
           THEN /\ robot.wait_timer = waiting.duration - waiting.elapsed
                /\ current_action_index = waiting.index
                /\ \A k \in 1..Len(effects) : effects[k] <= waiting.index
           ELSE robot.wait_timer <= 0

\* C18: a pick_up while carrying and a drop_off while not carrying change
\* no field of the robot, print nothing and raise nothing; after any
\* pick_up the robot carries.
C18_RepeatedPickUpDropOff ==
    Dispatching
        => /\ (PrevAction.action.v = <<"pick_up">> /\ prev.robot.carrying_sample)
                 => robot = prev.robot /\ stdout = prev.stdout /\ sim = "running"
           /\ (PrevAction.action.v = <<"drop_off">> /\ ~prev.robot.carrying_sample)
                 => robot = prev.robot /\ stdout = prev.stdout /\ sim = "running"
           /\ (PrevAction.action.v = <<"pick_up">>) => robot.carrying_sample

C18_Witness ==
    /\ Dispatching
    /\ PrevAction.action.v = <<"pick_up">>
    /\ prev.robot.carrying_sample
    /\ robot.carrying_sample

\* C19: Robot.step leaves the action cursor as it found it, in every branch.
C19_StepLeavesTheCursor ==
    Stepping => prev.step_index = prev.index

\* C20: in a tick with a move_to in flight the robot goes exactly
\* min(ROBOT_MAX_SPEED * dt, the way left), never more than ROBOT_MAX_SPEED * dt.
C20_StepIsBoundedBySpeed ==
    Moving
        => /\ Travelled = (IF MaxStep(dt) <= Remaining THEN MaxStep(dt) ELSE Remaining)
           /\ Travelled <= MaxStep(dt)

\* C21: seen after the loop has moved the cursor, the cursor never goes back
\* from one tick to the next and stays within 0..len(actions); a robot that
\* waits has no target.
C21_CursorMonotoneInBounds ==
    (sim # "off")
        => /\ 0 <= current_action_index
           /\ current_action_index <= Len(llm_actions)
           /\ prev # NotRun => current_action_index >= prev.index
           /\ robot.wait_timer > 0 => robot.target_pos = NoTarget

C21_Witness ==
    /\ Stepping
    /\ sim = "running"
    /\ ~prev.dispatched
    /\ prev.step_index = prev.index - 1
    /\ current_action_index = prev.index
    /\ robot.wait_timer > 0

\* C22: no plan that validation accepts makes Robot.step raise: the
\* simulation never leaves the loop by an exception.
C22_StepNeverRaises ==
    sim # "crashed"

\* every target_x and target_y of the plan is a numeric string
NumericPlan ==
    \A i \in 1..Len(llm_actions) :
        llm_actions[i].action.v = <<"move_to">>
            => /\ Coordinate(llm_actions[i].parameters, "target_x", 0).ok
               /\ Coordinate(llm_actions[i].parameters, "target_y", 0).ok

\* C23: with numeric targets, while ticks keep occurring the plan runs to its
\* end: the cursor reaches len(actions), every target is reached and cleared
\* and every wait timer expires.
C23_PlanRunsToItsEnd ==
    (sim = "running" /\ NumericPlan)
        => <>(/\ current_action_index = Len(llm_actions)
              /\ robot.target_pos = NoTarget
              /\ robot.wait_timer <= 0)

\* the cursor alone does reach the end of the plan
CursorReachesTheEnd ==
    (sim = "running" /\ NumericPlan) => <>(current_action_index = Len(llm_actions))

=============================================================================
